---- MODULE Spec2Model ----
(***************************************************************************)
(* Model of src/utils/rodadaConfig.ts: the five accessors that resolve and *)
(* persist the planned pizza count of a round and the limit of rounds,     *)
(* against the tables configuracoes, historico_sabores_rodada and rodadas. *)
(*                                                                         *)
(* The remote store answers every query with a pair {data, error}.  A      *)
(* query is modelled with an input o: "ok" (the store answers from its     *)
(* content; a point lookup that matches no row answers with the error code *)
(* PGRST116) or "erro" (the store answers with another error and no data). *)
(* The column descricao written by the upserts is never read by the module *)
(* and is left out of the rows.                                            *)
(***************************************************************************)
EXTENDS Integers, Sequences, FiniteSets, TLC

VARIABLES configuracoes, rodadas, historico, ultimoSalvo, last

vars == <<configuracoes, rodadas, historico, ultimoSalvo, last>>

(* ------------------------------ bounds --------------------------------- *)

\* Largest number of rows of the table rodadas.
MaxRodadas == 5

\* Largest ordem of a row of historico_sabores_rodada.
MaxOrdem == 2

\* Identifiers of the rounds the operations are called with.
RodadaIds == {"r1", "r2"}

\* Arguments the save operations are called with.
Numeros == {-1, 0, 12}

\* Status values of a round.
Status == {"finalizada", "criada"}

\* Answers of the store to one query.
Respostas == {"ok", "erro"}

(* ------------------------- program constants --------------------------- *)

PadraoPizzas == 5

PadraoLimite == 5

PadraoLimiteErro == 5

PadraoLimiteVerificacao == 5

(* --------------------------- JS numbers -------------------------------- *)

\* A JS number as the module meets it: an integer or NaN.
Num(v) == [nan |-> FALSE, v |-> v]

NaN == [nan |-> TRUE, v |-> 0]

\* a >= b on JS numbers: false as soon as one side is NaN.
MaiorOuIgual(a, b) == ~a.nan /\ ~b.nan /\ a.v >= b.v

Digitos == <<"0", "1", "2", "3", "4", "5", "6", "7", "8", "9">>

EhDigito(c) == \E d \in 1..10 : Digitos[d] = c

ValorDigito(c) == (CHOOSE d \in 1..10 : Digitos[d] = c) - 1

RECURSIVE DigitosDe(_)
DigitosDe(n) ==
  IF n < 10 THEN <<Digitos[n + 1]>>
  ELSE DigitosDe(n \div 10) \o <<Digitos[(n % 10) + 1]>>

\* Number.prototype.toString() of an integer: decimal digits, "-" first if negative.
NumberToString(n) ==
  IF n < 0 THEN <<"-">> \o DigitosDe(-n) ELSE DigitosDe(n)

RECURSIVE PularEspacos(_, _)
PularEspacos(s, i) ==
  IF i <= Len(s) /\ s[i] = " " THEN PularEspacos(s, i + 1) ELSE i

RECURSIVE LerDigitos(_, _, _)
LerDigitos(s, i, acc) ==
  IF i <= Len(s) /\ EhDigito(s[i])
  THEN LerDigitos(s, i + 1, acc * 10 + ValorDigito(s[i]))
  ELSE acc

\* A mutant of ParseInt: it reads one digit only.
ParseIntUmDigito(s) ==
  LET i0 == PularEspacos(s, 1)
      temSinal == i0 <= Len(s) /\ s[i0] \in {"-", "+"}
      i1 == IF temSinal THEN i0 + 1 ELSE i0
      sinal == IF temSinal /\ s[i0] = "-" THEN -1 ELSE 1
  IN  IF i1 <= Len(s) /\ EhDigito(s[i1])
      THEN Num(sinal * ValorDigito(s[i1]))
      ELSE NaN

\* parseInt(s): leading blanks, an optional sign, then the longest run of
\* decimal digits; NaN when there is no digit there.
ParseInt(s) ==
  LET i0 == PularEspacos(s, 1)
      temSinal == i0 <= Len(s) /\ s[i0] \in {"-", "+"}
      i1 == IF temSinal THEN i0 + 1 ELSE i0
      sinal == IF temSinal /\ s[i0] = "-" THEN -1 ELSE 1
  IN  IF i1 <= Len(s) /\ EhDigito(s[i1])
      THEN Num(sinal * LerDigitos(s, i1, 0))
      ELSE NaN

(* ------------------------------ the store ------------------------------ *)

SemErro == "nenhum"

NaoEncontrado == "PGRST116"

ErroArmazenamento == "ERRO"

Nulo == [nulo |-> TRUE]

Dado(x) == [nulo |-> FALSE, x |-> x]

\* `rodada_${rodadaId}_pizzas_planejadas`
ChaveRodada(rodadaId) == "rodada_" \o rodadaId \o "_pizzas_planejadas"

ChaveGlobal == "pizzas_planejadas_padrao"

ChaveLimite == "limite_total_rodadas"

Chaves == {ChaveRodada(id) : id \in RodadaIds} \cup {ChaveGlobal, ChaveLimite}

\* from('configuracoes').select('valor').eq('chave', chave).single()
SelectSingle(tab, chave, o) ==
  LET linhas == {l \in tab : l.chave = chave}
  IN  IF o = "erro" THEN [data |-> Nulo, error |-> ErroArmazenamento]
      ELSE IF Cardinality(linhas) = 1
           THEN [data |-> Dado((CHOOSE l \in linhas : TRUE).valor), error |-> SemErro]
           ELSE [data |-> Nulo, error |-> NaoEncontrado]

\* A mutant of Upsert: it replaces the whole table by the written row.
UpsertApagaOutras(tab, chave, valor, o) ==
  IF o = "erro" THEN [tab |-> tab, error |-> ErroArmazenamento]
  ELSE [tab |-> {[chave |-> chave, valor |-> valor]}, error |-> SemErro]

\* from('configuracoes').upsert({chave, valor, descricao}, {onConflict: 'chave'})
Upsert(tab, chave, valor, o) ==
  IF o = "erro" THEN [tab |-> tab, error |-> ErroArmazenamento]
  ELSE [tab |-> {l \in tab : l.chave # chave} \cup {[chave |-> chave, valor |-> valor]},
        error |-> SemErro]

RECURSIVE OrdemDesc(_)
OrdemDesc(S) ==
  IF S = {} THEN <<>>
  ELSE LET m == CHOOSE h \in S : \A g \in S : h.ordem >= g.ordem
       IN  <<m>> \o OrdemDesc(S \ {m})

\* from('historico_sabores_rodada').select('ordem').eq('rodada_id', id)
\*   .order('ordem', {ascending: false}).limit(1)
SelectOrdem(hist, rodadaId, o) ==
  LET linhas == OrdemDesc({h \in hist : h.rodada_id = rodadaId})
  IN  IF o = "erro" THEN [data |-> Nulo, error |-> ErroArmazenamento]
      ELSE [data |-> Dado(SubSeq(linhas, 1, IF Len(linhas) < 1 THEN Len(linhas) ELSE 1)),
            error |-> SemErro]

RECURSIVE NumeroDesc(_)
NumeroDesc(S) ==
  IF S = {} THEN <<>>
  ELSE LET m == CHOOSE r \in S : \A q \in S : r.numero >= q.numero
       IN  <<m>> \o NumeroDesc(S \ {m})

\* from('rodadas').select('numero, status').order('numero', {ascending: false})
SelectRodadas(rods, o) ==
  IF o = "erro" THEN [data |-> Nulo, error |-> ErroArmazenamento]
  ELSE [data |-> Dado(NumeroDesc(rods)), error |-> SemErro]

\* rodadas.filter(r => r.status === 'finalizada').length
Finalizadas(linhas) ==
  Cardinality({i \in 1..Len(linhas) : linhas[i].status = "finalizada"})

(* ---------------------------- operations ------------------------------ *)

RodadaConfig(numeroPizzas) ==
  [numeroPizzasPlanejadas |-> numeroPizzas, tempoLimitePorPizza |-> 0]

\* A mutant of obterConfigRodada: the global default is looked up first.
obterConfigRodadaGlobalPrimeiro(cfg, hist, rodadaId, o1, o2, o3) ==
  LET configGlobal == SelectSingle(cfg, ChaveGlobal, o1)
      configEspecifica == SelectSingle(cfg, ChaveRodada(rodadaId), o2)
      saboresRodada == SelectOrdem(hist, rodadaId, o3)
  IN  IF configGlobal.error = SemErro /\ ~configGlobal.data.nulo
      THEN [ret |-> RodadaConfig(ParseInt(configGlobal.data.x)), consultas |-> 1]
      ELSE IF configEspecifica.error = SemErro /\ ~configEspecifica.data.nulo
      THEN [ret |-> RodadaConfig(ParseInt(configEspecifica.data.x)), consultas |-> 2]
      ELSE IF saboresRodada.error = SemErro /\ ~saboresRodada.data.nulo
              /\ Len(saboresRodada.data.x) > 0
      THEN [ret |-> RodadaConfig(Num(saboresRodada.data.x[1].ordem)), consultas |-> 3]
      ELSE [ret |-> RodadaConfig(Num(PadraoPizzas)), consultas |-> 3]

\* A mutant of obterConfigRodada: an error of the first lookup other than
\* "not found" ends the resolution with the default.
obterConfigRodadaErroAborta(cfg, hist, rodadaId, o1, o2, o3) ==
  LET configEspecifica == SelectSingle(cfg, ChaveRodada(rodadaId), o1)
      configGlobal == SelectSingle(cfg, ChaveGlobal, o2)
      saboresRodada == SelectOrdem(hist, rodadaId, o3)
  IN  IF configEspecifica.error \notin {SemErro, NaoEncontrado}
      THEN [ret |-> RodadaConfig(Num(PadraoPizzas)), consultas |-> 1]
      ELSE IF configEspecifica.error = SemErro /\ ~configEspecifica.data.nulo
      THEN [ret |-> RodadaConfig(ParseInt(configEspecifica.data.x)), consultas |-> 1]
      ELSE IF configGlobal.error = SemErro /\ ~configGlobal.data.nulo
      THEN [ret |-> RodadaConfig(ParseInt(configGlobal.data.x)), consultas |-> 2]
      ELSE IF saboresRodada.error = SemErro /\ ~saboresRodada.data.nulo
              /\ Len(saboresRodada.data.x) > 0
      THEN [ret |-> RodadaConfig(Num(saboresRodada.data.x[1].ordem)), consultas |-> 3]
      ELSE [ret |-> RodadaConfig(Num(PadraoPizzas)), consultas |-> 3]

\* A mutant of obterConfigRodada: after an error of the global lookup the
\* history is not consulted.
obterConfigRodadaSemHistorico(cfg, hist, rodadaId, o1, o2, o3) ==
  LET configEspecifica == SelectSingle(cfg, ChaveRodada(rodadaId), o1)
      configGlobal == SelectSingle(cfg, ChaveGlobal, o2)
      saboresRodada == SelectOrdem(hist, rodadaId, o3)
  IN  IF configEspecifica.error = SemErro /\ ~configEspecifica.data.nulo
      THEN [ret |-> RodadaConfig(ParseInt(configEspecifica.data.x)), consultas |-> 1]
      ELSE IF configGlobal.error = SemErro /\ ~configGlobal.data.nulo
      THEN [ret |-> RodadaConfig(ParseInt(configGlobal.data.x)), consultas |-> 2]
      ELSE IF configGlobal.error \notin {SemErro, NaoEncontrado}
      THEN [ret |-> RodadaConfig(Num(PadraoPizzas)), consultas |-> 2]
      ELSE IF saboresRodada.error = SemErro /\ ~saboresRodada.data.nulo
              /\ Len(saboresRodada.data.x) > 0
      THEN [ret |-> RodadaConfig(Num(saboresRodada.data.x[1].ordem)), consultas |-> 3]
      ELSE [ret |-> RodadaConfig(Num(PadraoPizzas)), consultas |-> 3]

\* obterConfigRodada(rodadaId): the value returned and the number of queries
\* made.  Every query resolves to {data, error}, so no step of the try block
\* raises and the catch block (default 5) has no path into it.
obterConfigRodada(cfg, hist, rodadaId, o1, o2, o3) ==
  LET configEspecifica == SelectSingle(cfg, ChaveRodada(rodadaId), o1)
      configGlobal == SelectSingle(cfg, ChaveGlobal, o2)
      saboresRodada == SelectOrdem(hist, rodadaId, o3)
  IN  IF configEspecifica.error = SemErro /\ ~configEspecifica.data.nulo
      THEN [ret |-> RodadaConfig(ParseInt(configEspecifica.data.x)), consultas |-> 1]
      ELSE IF configGlobal.error = SemErro /\ ~configGlobal.data.nulo
      THEN [ret |-> RodadaConfig(ParseInt(configGlobal.data.x)), consultas |-> 2]
      ELSE IF saboresRodada.error = SemErro /\ ~saboresRodada.data.nulo
              /\ Len(saboresRodada.data.x) > 0
      THEN [ret |-> RodadaConfig(Num(saboresRodada.data.x[1].ordem)), consultas |-> 3]
      ELSE [ret |-> RodadaConfig(Num(PadraoPizzas)), consultas |-> 3]

\* A mutant of salvarConfigRodada: the error of the upsert is swallowed.
salvarConfigRodadaEngoleErro(cfg, rodadaId, numeroPizzas, o) ==
  LET r == Upsert(cfg, ChaveRodada(rodadaId), NumberToString(numeroPizzas), o)
  IN  [cfg |-> r.tab, lancou |-> FALSE]

\* salvarConfigRodada(rodadaId, numeroPizzas): the table after the call and
\* whether the call ended by throwing (if (error) throw error; catch: throw).
salvarConfigRodada(cfg, rodadaId, numeroPizzas, o) ==
  LET r == Upsert(cfg, ChaveRodada(rodadaId), NumberToString(numeroPizzas), o)
  IN  [cfg |-> r.tab, lancou |-> r.error # SemErro]

\* salvarLimiteRodadas(numeroRodadas)
salvarLimiteRodadas(cfg, numeroRodadas, o) ==
  LET r == Upsert(cfg, ChaveLimite, NumberToString(numeroRodadas), o)
  IN  [cfg |-> r.tab, lancou |-> r.error # SemErro]

\* obterLimiteRodadas(): an error other than PGRST116 is thrown and caught
\* (default 5); a row gives its parsed value; no row gives the default 5.
obterLimiteRodadas(cfg, o) ==
  LET r == SelectSingle(cfg, ChaveLimite, o)
  IN  IF r.error # SemErro /\ r.error # NaoEncontrado
      THEN Num(PadraoLimiteErro)
      ELSE IF ~r.data.nulo THEN ParseInt(r.data.x)
      ELSE Num(PadraoLimite)

\* A mutant of verificarSeExcedeuLimiteRodadas: every round is counted.
verificarContaTodas(cfg, rods, oLimite, oRodadas) ==
  LET limite == obterLimiteRodadas(cfg, oLimite)
      r == SelectRodadas(rods, oRodadas)
      totalRodadas == IF r.data.nulo THEN 0 ELSE Len(r.data.x)
  IN  IF r.error # SemErro
      THEN [excedeu |-> FALSE, totalRodadas |-> 0, limite |-> Num(PadraoLimiteVerificacao)]
      ELSE [excedeu |-> MaiorOuIgual(Num(totalRodadas), limite),
            totalRodadas |-> totalRodadas, limite |-> limite]

\* A mutant of verificarSeExcedeuLimiteRodadas: the catch block keeps the
\* limit obtained before the failure.
verificarErroMantemLimite(cfg, rods, oLimite, oRodadas) ==
  LET limite == obterLimiteRodadas(cfg, oLimite)
      r == SelectRodadas(rods, oRodadas)
      rodadasFinalizadas == IF r.data.nulo THEN 0 ELSE Finalizadas(r.data.x)
  IN  IF r.error # SemErro
      THEN [excedeu |-> FALSE, totalRodadas |-> 0, limite |-> limite]
      ELSE [excedeu |-> MaiorOuIgual(Num(rodadasFinalizadas), limite),
            totalRodadas |-> rodadasFinalizadas, limite |-> limite]

\* verificarSeExcedeuLimiteRodadas(): a failed fetch of the rounds is thrown
\* and caught ({false, 0, 5}); otherwise the finalized rounds are counted and
\* compared with the limit.
verificarSeExcedeuLimiteRodadas(cfg, rods, oLimite, oRodadas) ==
  LET limite == obterLimiteRodadas(cfg, oLimite)
      r == SelectRodadas(rods, oRodadas)
      rodadasFinalizadas == IF r.data.nulo THEN 0 ELSE Finalizadas(r.data.x)
  IN  IF r.error # SemErro
      THEN [excedeu |-> FALSE, totalRodadas |-> 0, limite |-> Num(PadraoLimiteVerificacao)]
      ELSE [excedeu |-> MaiorOuIgual(Num(rodadasFinalizadas), limite),
            totalRodadas |-> rodadasFinalizadas, limite |-> limite]

(* ------------------------------- state --------------------------------- *)

\* Values the rows of configuracoes hold before the first call.
ValoresIniciais(chave) ==
  IF chave = ChaveGlobal THEN {<<"3">>, <<"x">>} ELSE {<<"2">>}

SemLinha == <<"#">>

\* The tables configuracoes in which the keys of K hold an initial value or
\* no row, and no other key has a row.
TabelasIniciais(K) ==
  {{[chave |-> k, valor |-> f[k]] : k \in {c \in K : f[c] # SemLinha}} :
     f \in {g \in [K -> {SemLinha, <<"2">>, <<"3">>, <<"x">>}] :
              \A k \in K : g[k] \in ValoresIniciais(k) \cup {SemLinha}}}

RodadasIniciais ==
  UNION {{{[numero |-> i, status |-> s[i]] : i \in 1..k} : s \in [1..k -> Status]} :
           k \in 0..MaxRodadas}

HistoricosIniciais ==
  {{[rodada_id |-> p[1], ordem |-> p[2]] : p \in H} :
     H \in SUBSET (RodadaIds \X (1..MaxOrdem))}

NaoSalvo == [def |-> FALSE, n |-> 0]

Salvo(n) == [def |-> TRUE, n |-> n]

InitChamadas ==
  /\ ultimoSalvo = [id \in RodadaIds |-> NaoSalvo]
  /\ last = [op |-> "init", id |-> "", n |-> 0, resp |-> <<>>, lancou |-> FALSE,
             ret |-> Nulo]

\* All five operations, over any initial configuracoes, with the tables
\* rodadas and historico_sabores_rodada empty or holding one row.
Init ==
  /\ configuracoes \in TabelasIniciais(Chaves)
  /\ rodadas \in {{}, {[numero |-> 1, status |-> "finalizada"]}}
  /\ historico \in {{}, {[rodada_id |-> "r1", ordem |-> 1]}}
  /\ InitChamadas

\* The operations on the planned pizza count, over any initial entries of
\* the rounds and of the global default and any history.
InitConfig ==
  /\ configuracoes \in TabelasIniciais(Chaves \ {ChaveLimite})
  /\ rodadas = {}
  /\ historico \in HistoricosIniciais
  /\ InitChamadas

\* The operations on the limit of rounds, over any initial limit and rounds.
InitLimite ==
  /\ configuracoes \in TabelasIniciais({ChaveLimite})
  /\ rodadas \in RodadasIniciais
  /\ historico = {}
  /\ InitChamadas

ObterConfigRodada ==
  \E id \in RodadaIds, o1 \in Respostas, o2 \in Respostas, o3 \in Respostas :
    LET r == obterConfigRodada(configuracoes, historico, id, o1, o2, o3)
    IN  /\ last' = [op |-> "obterConfigRodada", id |-> id, n |-> 0,
                    resp |-> SubSeq(<<o1, o2, o3>>, 1, r.consultas),
                    lancou |-> FALSE, ret |-> r.ret]
        /\ UNCHANGED <<configuracoes, rodadas, historico, ultimoSalvo>>

SalvarConfigRodada ==
  \E id \in RodadaIds, n \in Numeros, o \in Respostas :
    LET r == salvarConfigRodada(configuracoes, id, n, o)
    IN  /\ configuracoes' = r.cfg
        /\ ultimoSalvo' = IF r.lancou THEN ultimoSalvo
                          ELSE [ultimoSalvo EXCEPT ![id] = Salvo(n)]
        /\ last' = [op |-> "salvarConfigRodada", id |-> id, n |-> n,
                    resp |-> <<o>>, lancou |-> r.lancou, ret |-> Nulo]
        /\ UNCHANGED <<rodadas, historico>>

SalvarLimiteRodadas ==
  \E n \in Numeros, o \in Respostas :
    LET r == salvarLimiteRodadas(configuracoes, n, o)
    IN  /\ configuracoes' = r.cfg
        /\ last' = [op |-> "salvarLimiteRodadas", id |-> "", n |-> n,
                    resp |-> <<o>>, lancou |-> r.lancou, ret |-> Nulo]
        /\ UNCHANGED <<rodadas, historico, ultimoSalvo>>

ObterLimiteRodadas ==
  \E o \in Respostas :
    /\ last' = [op |-> "obterLimiteRodadas", id |-> "", n |-> 0, resp |-> <<o>>,
                lancou |-> FALSE, ret |-> obterLimiteRodadas(configuracoes, o)]
    /\ UNCHANGED <<configuracoes, rodadas, historico, ultimoSalvo>>

VerificarSeExcedeuLimiteRodadas ==
  \E oLimite \in Respostas, oRodadas \in Respostas :
    /\ last' = [op |-> "verificarSeExcedeuLimiteRodadas", id |-> "", n |-> 0,
                resp |-> <<oLimite, oRodadas>>, lancou |-> FALSE,
                ret |-> verificarSeExcedeuLimiteRodadas(configuracoes, rodadas,
                                                        oLimite, oRodadas)]
    /\ UNCHANGED <<configuracoes, rodadas, historico, ultimoSalvo>>

Next ==
  \/ ObterConfigRodada
  \/ SalvarConfigRodada
  \/ SalvarLimiteRodadas
  \/ ObterLimiteRodadas
  \/ VerificarSeExcedeuLimiteRodadas

Spec == Init /\ [][Next]_vars

NextConfig ==
  \/ ObterConfigRodada
  \/ SalvarConfigRodada

SpecConfig == InitConfig /\ [][NextConfig]_vars

NextLimite ==
  \/ SalvarLimiteRodadas
  \/ ObterLimiteRodadas
  \/ VerificarSeExcedeuLimiteRodadas

SpecLimite == InitLimite /\ [][NextLimite]_vars

(* ------------------- what the claims speak about ----------------------- *)

Existe(tab, chave) == \E l \in tab : l.chave = chave

ValorDe(tab, chave) == (CHOOSE l \in tab : l.chave = chave).valor

OrdensDe(hist, rodadaId) == {h.ordem : h \in {g \in hist : g.rodada_id = rodadaId}}

Maximo(S) == CHOOSE m \in S : \A x \in S : m >= x

\* The planned count of the first available source, in the order: the
\* round's own entry, the global default, the largest ordem of the history, 5.
PrimeiraFonte(tab, hist, rodadaId) ==
  IF Existe(tab, ChaveRodada(rodadaId)) THEN ParseInt(ValorDe(tab, ChaveRodada(rodadaId)))
  ELSE IF Existe(tab, ChaveGlobal) THEN ParseInt(ValorDe(tab, ChaveGlobal))
  ELSE IF OrdensDe(hist, rodadaId) # {} THEN Num(Maximo(OrdensDe(hist, rodadaId)))
  ELSE Num(5)

Obteve == last.op = "obterConfigRodada"

Verificou == last.op = "verificarSeExcedeuLimiteRodadas"

\* The k-th query of the last call was made and the store answered it with
\* an error other than "not found".
Errou(k) == k <= Len(last.resp) /\ last.resp[k] = "erro"

SemErros == \A k \in 1..Len(last.resp) : last.resp[k] = "ok"

Positivo(x) == ~x.nan /\ x.v > 0

NumFinalizadas(rods) == Cardinality({r \in rods : r.status = "finalizada"})

LimiteArmazenado ==
  IF Existe(configuracoes, ChaveLimite)
  THEN ParseInt(ValorDe(configuracoes, ChaveLimite))
  ELSE Num(5)

(* ------------------------------- claims -------------------------------- *)

\* C1: when no lookup of obterConfigRodada reports an error, the call returns
\* the planned count of the first available source (own entry, else global
\* default, else largest ordem of the round's history, else 5), with
\* tempoLimitePorPizza 0, and never null.
C1_FallbackOrder ==
  (Obteve /\ SemErros) =>
    /\ last.ret # Nulo
    /\ last.ret.tempoLimitePorPizza = 0
    /\ last.ret.numeroPizzasPlanejadas = PrimeiraFonte(configuracoes, historico, last.id)

\* The own entry wins over a different global default and a non-empty history.
C1_Witness ==
  /\ Obteve /\ SemErros
  /\ Existe(configuracoes, ChaveRodada(last.id))
  /\ Existe(configuracoes, ChaveGlobal)
  /\ ValorDe(configuracoes, ChaveGlobal) # ValorDe(configuracoes, ChaveRodada(last.id))
  /\ Cardinality(OrdensDe(historico, last.id)) >= 2
  /\ last.ret.numeroPizzasPlanejadas = Num(12)

C3_Original ==
  (Verificou /\ last.resp[2] = "ok") =>
    /\ last.ret.limite = LimiteArmazenado
    /\ last.ret.totalRodadas = NumFinalizadas(rodadas)
    /\ last.ret.excedeu = (~last.ret.limite.nan
                            /\ last.ret.totalRodadas >= last.ret.limite.v)

\* C3 (amended): when the fetch of the rounds succeeds and the lookup of the
\* limit reports no error, the limit returned is the stored limit (5 when none
\* is stored), the count is the number of finalized rounds, excedeu is
\* count >= limit, and the result is the same for every table of rounds with
\* the same finalized rounds.
C3_LimitCheck ==
  (Verificou /\ last.resp[1] = "ok" /\ last.resp[2] = "ok") =>
    /\ last.ret.limite = LimiteArmazenado
    /\ last.ret.totalRodadas = NumFinalizadas(rodadas)
    /\ last.ret.excedeu = (~last.ret.limite.nan
                            /\ last.ret.totalRodadas >= last.ret.limite.v)
    /\ \A outras \in RodadasIniciais :
         {r \in outras : r.status = "finalizada"}
             = {r \in rodadas : r.status = "finalizada"}
           => verificarSeExcedeuLimiteRodadas(configuracoes, outras, "ok", "ok")
                = last.ret

\* Limit 2, two finalized rounds and a created one: exceeded, count 2.
C3_Witness ==
  /\ Verificou /\ last.resp = <<"ok", "ok">>
  /\ Existe(configuracoes, ChaveLimite)
  /\ \E r \in rodadas : r.status = "criada"
  /\ last.ret = [excedeu |-> TRUE, totalRodadas |-> 2, limite |-> Num(2)]

\* C4: an error reported by a lookup of obterConfigRodada does not end the
\* resolution: the call returns what the fallback order gives on the tables
\* without the sources whose lookup reported the error.
C4_ErroComoAusente ==
  Obteve =>
    LET tab == {l \in configuracoes :
                  /\ ~(Errou(1) /\ l.chave = ChaveRodada(last.id))
                  /\ ~(Errou(2) /\ l.chave = ChaveGlobal)}
        hist == {h \in historico : ~(Errou(3) /\ h.rodada_id = last.id)}
    IN  last.ret = RodadaConfig(PrimeiraFonte(tab, hist, last.id))

\* The lookup of an existing own entry fails and the global default is used.
C4_Witness ==
  /\ Obteve /\ last.resp = <<"erro", "ok">>
  /\ Existe(configuracoes, ChaveRodada(last.id))
  /\ last.ret = RodadaConfig(Num(3))

C6_FetchFailure ==
  Verificou =>
    /\ ~last.lancou
    /\ last.resp[2] = "erro" =>
         last.ret = [excedeu |-> FALSE, totalRodadas |-> 0, limite |-> Num(5)]

\* The fetch fails with a stored limit of 2 read without error and two
\* finalized rounds in the table.
C6_Witness ==
  /\ Verificou /\ last.resp = <<"ok", "erro">>
  /\ LimiteArmazenado = Num(2)
  /\ NumFinalizadas(rodadas) >= 2
  /\ last.ret.limite = Num(5)

\* C7: salvarConfigRodada and salvarLimiteRodadas throw whenever the upsert
\* reports a failure, and return normally only when the row was written.
C7_SavePropagates ==
  last.op \in {"salvarConfigRodada", "salvarLimiteRodadas"} =>
    LET chave == IF last.op = "salvarConfigRodada" THEN ChaveRodada(last.id)
                 ELSE ChaveLimite
    IN  /\ last.resp[1] = "erro" => last.lancou
        /\ ~last.lancou =>
             /\ Existe(configuracoes, chave)
             /\ ValorDe(configuracoes, chave) = NumberToString(last.n)

\* A rejected write of 12 over a row that keeps its older value.
C7_Witness ==
  /\ last.op = "salvarConfigRodada" /\ last.resp[1] = "erro" /\ last.lancou
  /\ last.n = 12
  /\ Existe(configuracoes, ChaveRodada(last.id))
  /\ ValorDe(configuracoes, ChaveRodada(last.id)) = NumberToString(0)

\* C8 as stated: with no entry other than those salvarConfigRodada wrote,
\* numeroPizzasPlanejadas returned by obterConfigRodada is a positive integer
\* (the default 5 included), never zero and never negative.
C8_Original ==
  (/\ Obteve
   /\ ~Existe(configuracoes, ChaveGlobal)
   /\ Existe(configuracoes, ChaveRodada(last.id)) => ultimoSalvo[last.id].def)
    => Positivo(last.ret.numeroPizzasPlanejadas)

\* C9 as stated: the number returned by obterLimiteRodadas and the limit
\* returned by verificarSeExcedeuLimiteRodadas are positive, and excedeu is
\* never true with no finalized round.
C9_Original ==
  /\ last.op = "obterLimiteRodadas" => Positivo(last.ret)
  /\ Verificou => /\ Positivo(last.ret.limite)
                  /\ ~(last.ret.excedeu /\ last.ret.totalRodadas = 0)

\* C10: the three reading operations leave configuracoes, rodadas and
\* historico unchanged; salvarConfigRodada(r, n) changes no row but the one
\* of key rodada_{r}_pizzas_planejadas and salvarLimiteRodadas no row but the
\* one of key limite_total_rodadas; no key is ever removed.
C10_Frame ==
  [][/\ last'.op \in {"obterConfigRodada", "obterLimiteRodadas",
                      "verificarSeExcedeuLimiteRodadas"}
          => configuracoes' = configuracoes
     /\ rodadas' = rodadas /\ historico' = historico
     /\ last'.op = "salvarConfigRodada"
          => {l \in configuracoes' : l.chave # ChaveRodada(last'.id)}
               = {l \in configuracoes : l.chave # ChaveRodada(last'.id)}
     /\ last'.op = "salvarLimiteRodadas"
          => {l \in configuracoes' : l.chave # ChaveLimite}
               = {l \in configuracoes : l.chave # ChaveLimite}
     /\ {l.chave : l \in configuracoes} \subseteq {l.chave : l \in configuracoes'}
    ]_vars

\* A save for one round has been applied while the other round, the global
\* default and the limit keep their initial rows.
C10_Witness ==
  /\ last.op = "salvarConfigRodada" /\ ~last.lancou /\ last.n = 12
  /\ \E outra \in RodadaIds \ {last.id} :
       /\ Existe(configuracoes, ChaveRodada(outra))
       /\ ValorDe(configuracoes, ChaveRodada(outra)) = <<"2">>
  /\ Existe(configuracoes, ChaveGlobal)
  /\ ValorDe(configuracoes, ChaveGlobal) = <<"x">>
  /\ Existe(configuracoes, ChaveLimite)

====
